---- MODULE Spec2Model ----
(***************************************************************************)
(* Model of src/aivoice.py: the ProfessionalTTS pipeline (enhance_audio,   *)
(* add_background_music, create_audio, batch_process) and the two request  *)
(* handlers of main().  Every user session runs main() in a thread of its  *)
(* own; the sessions share the working directory, where create_audio keeps *)
(* its intermediate file "temp.mp3".                                       *)
(*                                                                         *)
(* Durations are whole milliseconds, as len(AudioSegment) is.  Speeds are  *)
(* tenths (10 is the float 1.0).  An audio buffer records the text it was  *)
(* synthesized from, its duration and the effects applied to it.           *)
(*                                                                         *)
(* pydub's AudioSegment operators are modelled by what they do:            *)
(*   seg * n  repeats seg's data n times for an int n (line 44 relies on   *)
(*            this) and raises TypeError for a float n, since the data is  *)
(*            a bytes object;                                              *)
(*   seg + n  applies a gain of n dB;  seg[:n] cuts at n ms;               *)
(*   a.overlay(b) mixes b onto a and has a's length.                       *)
(***************************************************************************)
EXTENDS Integers, Sequences, FiniteSets, TLC

VARIABLES pc, req, idx, failedAt, loc, results, ui, calls, tmpdir, tempMp3,
          written, mixArgs, mixRet

vars == <<pc, req, idx, failedAt, loc, results, ui, calls, tmpdir, tempMp3,
          written, mixArgs, mixRet>>

appVars == <<pc, req, idx, failedAt, loc, results, ui, calls, tmpdir, tempMp3,
             written>>

mixVars == <<mixArgs, mixRet>>

----------------------------------------------------------------------------
(* Bounds of the model.                                                    *)

\* Most files one batch upload holds.
MaxFiles == 2
\* The seconds a request can read from the clock are 0..MaxClock.
MaxClock == 0
\* Longest voice or music buffer, in ms, given to add_background_music.
MaxDur == 9

Sessions == {"s1", "s2"}
Texts == {"", "a", "bb"}
BatchTexts == {"", "a"}
Titles == {"A", "B"}
Speeds == {10, 15}
Volumes == {-30, -20}
Timestamps == 0 .. MaxClock

----------------------------------------------------------------------------
(* Values.                                                                 *)

NoAudio == [kind |-> "none"]
Absent == [kind |-> "absent"]
NoCall == [kind |-> "nocall"]
NoPath == [dir |-> "none", title |-> "", ts |-> -1]
NoRequest == [button |-> "none"]

Raise(e) == [kind |-> "raise", exc |-> e]
IsRaise(v) == v.kind = "raise"

Seg(t, d) == [kind |-> "seg", text |-> t, dur |-> d, fx |-> <<>>]
SegLen(seg) == seg.dur

IntNum(n) == [type |-> "int", val |-> n]
FloatNum(tenths) == [type |-> "float", val |-> tenths]

\* The speech gTTS returns for a text: one unit of audio per character.
SpeechDur(t) == CASE t = "a" -> 1 [] t = "bb" -> 2 [] OTHER -> 0

\* The track a user uploads as background music.
UploadedMusic == Seg("music", 3)

----------------------------------------------------------------------------
(* pydub.                                                                  *)

Fx(seg, name, n) == [seg EXCEPT !.fx = Append(@, [op |-> name, arg |-> n])]

normalize(seg) == Fx(seg, "normalize", 0)

low_pass_filter(seg, cutoff) == Fx(seg, "low_pass", cutoff)

high_pass_filter(seg, cutoff) == Fx(seg, "high_pass", cutoff)

\* AudioSegment.__mul__ with a number: self._data * n.
SegMul(seg, n) ==
    IF n.type = "int"
    THEN [Fx(seg, "repeat", n.val) EXCEPT !.dur = @ * n.val]
    ELSE Raise("TypeError")

\* AudioSegment.__add__ with a number: apply_gain.
Gain(seg, db) == Fx(seg, "gain", db)

\* seg[:ms]
SliceTo(seg, ms) == [seg EXCEPT !.dur = IF @ < ms THEN @ ELSE ms]

\* base.overlay(other): other is cut to base's length, the result has base's.
overlay(base, other) ==
    Fx(base, "overlay", IF other.dur < base.dur THEN other.dur ELSE base.dur)

\* pydub.effects.speedup, to the nominal duration.
speedup(seg, speed) ==
    [Fx(seg, "speedup", speed) EXCEPT !.dur = (@ * 10) \div speed]

----------------------------------------------------------------------------
(* ProfessionalTTS.                                                        *)

bass_multiplier == IntNum(3)
treble_multiplier == FloatNum(15)

\* enhance_audio: the buffer it returns, or the exception it raises.
enhance_audio(audio_segment) ==
    LET audio == normalize(audio_segment)
        bass == SegMul(low_pass_filter(audio, 300), bass_multiplier)
        treble == SegMul(high_pass_filter(audio, 2000), treble_multiplier)
    IN  IF IsRaise(bass) THEN bass
        ELSE IF IsRaise(treble) THEN treble
        ELSE overlay(overlay(audio, bass), treble)

\* times_to_loop = int(len(voice_audio) / len(background)) + 1
times_to_loop(voiceLen, bgLen) == (voiceLen \div bgLen) + 1

\* add_background_music, given the decoded music file.
add_background_music(voice_audio, background, music_volume) ==
    IF SegLen(background) < SegLen(voice_audio) /\ SegLen(background) = 0
    THEN Raise("ZeroDivisionError")
    ELSE LET looped == IF SegLen(background) < SegLen(voice_audio)
                       THEN SegMul(background,
                                   IntNum(times_to_loop(SegLen(voice_audio), SegLen(background))))
                       ELSE background
             cut == SliceTo(looped, SegLen(voice_audio))
             quiet == Gain(cut, music_volume)
         IN  overlay(voice_audio, quiet)

\* The default of add_background_music's music_volume parameter.
DefaultMusicVolume == -20

----------------------------------------------------------------------------
(* Files.  A path is the directory (a session's temporary directory, or    *)
(* "cwd"), the title and the timestamp of f"{dir}/{title}_{ts}.mp3"; the   *)
(* two fixed names carry no timestamp (-1).                                *)

temp_file == [dir |-> "cwd", title |-> "temp", ts |-> -1]
bg_music_path(s) == [dir |-> s, title |-> "background", ts |-> -1]
OutputPath(dir, title, ts) == [dir |-> dir, title |-> title, ts |-> ts]

NoDir == [exists |-> FALSE, files |-> {}]

Exists(p) ==
    IF p.dir = "cwd" THEN tempMp3.kind # "absent"
    ELSE tmpdir[p.dir].exists /\ p \in tmpdir[p.dir].files

----------------------------------------------------------------------------
(* Requests: the widget values of one run of main() and the button that    *)
(* started it.                                                             *)

Uploads == [name : Titles, content : BatchTexts]
UploadSeqs == UNION {[1 .. n -> Uploads] : n \in 1 .. MaxFiles}

Widgets(button, text, bg, volume, speed, files) ==
    [button |-> button, title |-> "A", text |-> text, bg |-> bg,
     volume |-> volume, speed |-> speed, files |-> files]

\* "Generate Audio": every text at every speed, and a text with uploaded
\* music at every slider value.
SingleRequests ==
    {Widgets("generate", t, FALSE, -20, sp, <<>>) : t \in Texts, sp \in Speeds}
    \cup {Widgets("generate", "a", TRUE, v, 10, <<>>) : v \in Volumes}

\* "Process All Stories": every upload of 1..MaxFiles files.
BatchRequests ==
    {Widgets("process", "", FALSE, -20, 10, fs) : fs \in UploadSeqs}

\* What a session asks for: s1 anything, the concurrent session s2 single
\* stories.
Requests(s) ==
    IF s = "s1" THEN SingleRequests \cup BatchRequests ELSE SingleRequests

\* stories[file.name] = content, results[title] = output_file: a dict keeps
\* a key's first position and its last value.
DictPut(d, k, v) ==
    IF \E i \in 1 .. Len(d) : d[i].key = k
    THEN [i \in 1 .. Len(d) |->
            IF d[i].key = k THEN [key |-> k, val |-> v] ELSE d[i]]
    ELSE Append(d, [key |-> k, val |-> v])

Keys(d) == {d[i].key : i \in 1 .. Len(d)}

\* main, lines 184-187.
RECURSIVE BuildStories(_)
BuildStories(files) ==
    IF files = <<>> THEN <<>>
    ELSE LET n == Len(files)
         IN  DictPut(BuildStories(SubSeq(files, 1, n - 1)),
                     files[n].name, files[n].content)

Stories(s) == BuildStories(req[s].files)

\* The (title, text) create_audio is called with: main, lines 153-158, and
\* batch_process, lines 78-79.
CurStory(s) ==
    IF req[s].button = "generate"
    THEN [title |-> req[s].title, text |-> req[s].text]
    ELSE [title |-> Stories(s)[idx[s]].key, text |-> Stories(s)[idx[s]].val]

\* create_audio's locals: the output path, the buffer from_mp3 returned and
\* the session whose temp.mp3 it was read from, the current buffer, the
\* buffer given to export, and the exception that ended the call.
InitLoc ==
    [output_file |-> NoPath, decoded |-> NoAudio, readFrom |-> "",
     audio |-> NoAudio, out |-> NoAudio, exc |-> ""]

Call(s, fn, arg) == [story |-> idx[s], fn |-> fn, arg |-> arg]

Called(s, fn) == \E i \in 1 .. Len(calls[s]) : calls[s][i].fn = fn

Shown(kind, title) == [kind |-> kind, title |-> title]

----------------------------------------------------------------------------
AppInit ==
    /\ pc = [s \in Sessions |-> "idle"]
    /\ req = [s \in Sessions |-> NoRequest]
    /\ idx = [s \in Sessions |-> 0]
    /\ failedAt = [s \in Sessions |-> 0]
    /\ loc = [s \in Sessions |-> InitLoc]
    /\ results = [s \in Sessions |-> <<>>]
    /\ ui = [s \in Sessions |-> {}]
    /\ calls = [s \in Sessions |-> <<>>]
    /\ tmpdir = [s \in Sessions |-> NoDir]
    /\ tempMp3 = Absent
    /\ written = [s \in Sessions |-> {}]

Init ==
    /\ AppInit
    /\ mixArgs = NoCall
    /\ mixRet = NoCall

\* A button is pressed: streamlit reruns main() with the widget values.
Click(s) ==
    /\ pc[s] \in {"idle", "done"}
    /\ \E r \in Requests(s) : req' = [req EXCEPT ![s] = r]
    /\ pc' = [pc EXCEPT ![s] = "button"]
    /\ idx' = [idx EXCEPT ![s] = 0]
    /\ failedAt' = [failedAt EXCEPT ![s] = 0]
    /\ loc' = [loc EXCEPT ![s] = InitLoc]
    /\ results' = [results EXCEPT ![s] = <<>>]
    /\ ui' = [ui EXCEPT ![s] = {}]
    /\ calls' = [calls EXCEPT ![s] = <<>>]
    /\ written' = [written EXCEPT ![s] = {}]
    /\ UNCHANGED <<tmpdir, tempMp3, mixVars>>

\* main, lines 140-141 and 171-172: no text, a warning.
SingleWarn(s) ==
    /\ pc[s] = "button"
    /\ req[s].button = "generate"
    /\ req[s].text = ""
    /\ ui' = [ui EXCEPT ![s] = @ \cup {Shown("warning", "")}]
    /\ pc' = [pc EXCEPT ![s] = "done"]
    /\ UNCHANGED <<req, idx, failedAt, loc, results, calls, tmpdir, tempMp3,
                   written, mixVars>>

\* main, lines 141-151: the temporary directory, the engine, the uploaded
\* music written to background.mp3.
SingleBegin(s) ==
    /\ pc[s] = "button"
    /\ req[s].button = "generate"
    /\ req[s].text # ""
    /\ tmpdir' = [tmpdir EXCEPT ![s] =
                    [exists |-> TRUE,
                     files |-> IF req[s].bg THEN {bg_music_path(s)} ELSE {}]]
    /\ written' = [written EXCEPT ![s] =
                    IF req[s].bg THEN {bg_music_path(s)} ELSE {}]
    /\ idx' = [idx EXCEPT ![s] = 1]
    /\ pc' = [pc EXCEPT ![s] = "stamp"]
    /\ UNCHANGED <<req, failedAt, loc, results, ui, calls, tempMp3, mixVars>>

\* main, lines 183-198, and batch_process, lines 77-78: the stories, the
\* temporary directory, the engine, the first story.
BatchBegin(s) ==
    /\ pc[s] = "button"
    /\ req[s].button = "process"
    /\ req[s].files # <<>>
    /\ tmpdir' = [tmpdir EXCEPT ![s] = [exists |-> TRUE, files |-> {}]]
    /\ results' = [results EXCEPT ![s] = <<>>]
    /\ idx' = [idx EXCEPT ![s] = 1]
    /\ pc' = [pc EXCEPT ![s] = "stamp"]
    /\ UNCHANGED <<req, failedAt, loc, ui, calls, tempMp3, written, mixVars>>

\* create_audio, lines 54-55.
Stamp(s) ==
    /\ pc[s] = "stamp"
    /\ \E ts \in Timestamps :
         loc' = [loc EXCEPT ![s] =
                   [InitLoc EXCEPT !.output_file = OutputPath(s, CurStory(s).title, ts)]]
    /\ pc' = [pc EXCEPT ![s] = "synth"]
    /\ UNCHANGED <<req, idx, failedAt, results, ui, calls, tmpdir, tempMp3,
                   written, mixVars>>

\* batch_process swallowing a story's exception and going on with the next
\* story, returning normally after the last.
RaiseInSwallowed(s, l, e) ==
    /\ loc' = [loc EXCEPT ![s] = [l EXCEPT !.exc = e]]
    /\ failedAt' = [failedAt EXCEPT ![s] = IF @ = 0 THEN idx[s] ELSE @]
    /\ IF req[s].button = "process" /\ idx[s] < Len(Stories(s))
       THEN /\ idx' = [idx EXCEPT ![s] = @ + 1]
            /\ pc' = [pc EXCEPT ![s] = "stamp"]
       ELSE /\ pc' = [pc EXCEPT ![s] = "unwind"]
            /\ UNCHANGED idx

\* Exception e leaves create_audio, whose locals are l.  batch_process has
\* no handler of its own, so it leaves batch_process too, on the way to
\* main's except clause.
RaiseIn(s, l, e) ==
    /\ loc' = [loc EXCEPT ![s] = [l EXCEPT !.exc = e]]
    /\ failedAt' = [failedAt EXCEPT ![s] = IF @ = 0 THEN idx[s] ELSE @]
    /\ pc' = [pc EXCEPT ![s] = "unwind"]
    /\ UNCHANGED idx

\* create_audio, lines 57-59: gTTS(text=...) refuses an empty text; save
\* opens temp.mp3 for writing and streams the speech into it, so a failed
\* request to the service leaves the file empty.
Synthesize(s) ==
    /\ pc[s] = "synth"
    /\ LET text == CurStory(s).text
       IN  \/ /\ text = ""
              /\ calls' = [calls EXCEPT ![s] = Append(@, Call(s, "gTTS", text))]
              /\ RaiseIn(s, loc[s], "AssertionError")
              /\ UNCHANGED <<tempMp3, written>>
           \/ /\ text # ""
              /\ calls' = [calls EXCEPT ![s] =
                             @ \o <<Call(s, "gTTS", text), Call(s, "save", text)>>]
              /\ tempMp3' = [kind |-> "file", text |-> text, writer |-> s]
              /\ written' = [written EXCEPT ![s] = @ \cup {temp_file}]
              /\ pc' = [pc EXCEPT ![s] = "decode"]
              /\ UNCHANGED <<idx, failedAt, loc>>
           \/ /\ text # ""
              /\ calls' = [calls EXCEPT ![s] =
                             @ \o <<Call(s, "gTTS", text), Call(s, "save", text)>>]
              /\ tempMp3' = [kind |-> "empty", text |-> "", writer |-> s]
              /\ written' = [written EXCEPT ![s] = @ \cup {temp_file}]
              /\ RaiseIn(s, loc[s], "gTTSError")
    /\ UNCHANGED <<req, results, ui, tmpdir, mixVars>>

\* create_audio, line 61: AudioSegment.from_mp3 decodes whatever temp.mp3
\* holds now.
Decode(s) ==
    /\ pc[s] = "decode"
    /\ calls' = [calls EXCEPT ![s] = Append(@, Call(s, "from_mp3", "temp.mp3"))]
    /\ IF tempMp3.kind = "absent" THEN RaiseIn(s, loc[s], "FileNotFoundError")
       ELSE IF tempMp3.kind = "empty"
       THEN RaiseIn(s, [loc[s] EXCEPT !.readFrom = tempMp3.writer],
                    "CouldntDecodeError")
       ELSE /\ loc' = [loc EXCEPT
                         ![s].decoded = Seg(tempMp3.text, SpeechDur(tempMp3.text)),
                         ![s].audio = Seg(tempMp3.text, SpeechDur(tempMp3.text)),
                         ![s].readFrom = tempMp3.writer]
            /\ pc' = [pc EXCEPT ![s] = "enhance"]
            /\ UNCHANGED <<idx, failedAt>>
    /\ UNCHANGED <<req, results, ui, tmpdir, tempMp3, written, mixVars>>

\* create_audio, line 62.
Enhance(s) ==
    /\ pc[s] = "enhance"
    /\ calls' = [calls EXCEPT ![s] = Append(@, Call(s, "enhance_audio", ""))]
    /\ LET r == enhance_audio(loc[s].audio)
       IN  IF IsRaise(r) THEN RaiseIn(s, loc[s], r.exc)
           ELSE /\ loc' = [loc EXCEPT ![s].audio = r]
                /\ pc' = [pc EXCEPT ![s] = "speed"]
                /\ UNCHANGED <<idx, failedAt>>
    /\ UNCHANGED <<req, results, ui, tmpdir, tempMp3, written, mixVars>>

\* main, lines 144 and 192: the exception leaves the with block, and
\* TemporaryDirectory removes the directory and all it holds.
Unwind(s) ==
    /\ pc[s] = "unwind"
    /\ tmpdir' = [tmpdir EXCEPT ![s] = NoDir]
    /\ pc' = [pc EXCEPT ![s] = "except"]
    /\ UNCHANGED <<req, idx, failedAt, loc, results, ui, calls, tempMp3,
                   written, mixVars>>

\* main, lines 169-170 and 212-213.
ShowError(s) ==
    /\ pc[s] = "except"
    /\ ui' = [ui EXCEPT ![s] = @ \cup {Shown("error", "")}]
    /\ pc' = [pc EXCEPT ![s] = "done"]
    /\ UNCHANGED <<req, idx, failedAt, loc, results, calls, tmpdir, tempMp3,
                   written, mixVars>>

Next ==
    \E s \in Sessions :
        \/ Click(s)
        \/ SingleWarn(s)
        \/ SingleBegin(s)
        \/ BatchBegin(s)
        \/ Stamp(s)
        \/ Synthesize(s)
        \/ Decode(s)
        \/ Enhance(s)
        \/ Unwind(s)
        \/ ShowError(s)

Spec == Init /\ [][Next]_vars

----------------------------------------------------------------------------
(* The rest of create_audio, batch_process and the handlers: what runs     *)
(* once enhance_audio has returned a buffer.                               *)

\* create_audio, lines 64-65.
SpeedAdjust(s) ==
    /\ pc[s] = "speed"
    /\ IF req[s].speed # 10
       THEN /\ loc' = [loc EXCEPT ![s].audio = speedup(@, req[s].speed)]
            /\ calls' = [calls EXCEPT ![s] = Append(@, Call(s, "speedup", ""))]
       ELSE UNCHANGED <<loc, calls>>
    /\ pc' = [pc EXCEPT ![s] = "mix"]
    /\ UNCHANGED <<req, idx, failedAt, results, ui, tmpdir, tempMp3, written,
                   mixVars>>

\* create_audio, lines 67-68: the mixer is called without a volume, so with
\* its default.
Mix(s) ==
    /\ pc[s] = "mix"
    /\ IF req[s].button = "generate" /\ req[s].bg
       THEN /\ calls' = [calls EXCEPT ![s] =
                           Append(@, Call(s, "add_background_music", "default"))]
            /\ LET r == add_background_music(loc[s].audio, UploadedMusic,
                                           DefaultMusicVolume)
               IN  IF IsRaise(r) THEN RaiseIn(s, loc[s], r.exc)
                   ELSE /\ loc' = [loc EXCEPT ![s].audio = r]
                        /\ pc' = [pc EXCEPT ![s] = "export"]
                        /\ UNCHANGED <<idx, failedAt>>
       ELSE /\ pc' = [pc EXCEPT ![s] = "export"]
            /\ UNCHANGED <<calls, loc, idx, failedAt>>
    /\ UNCHANGED <<req, results, ui, tmpdir, tempMp3, written, mixVars>>

\* create_audio, line 70.
Export(s) ==
    /\ pc[s] = "export"
    /\ calls' = [calls EXCEPT ![s] = Append(@, Call(s, "export", ""))]
    /\ tmpdir' = [tmpdir EXCEPT ![s].files = @ \cup {loc[s].output_file}]
    /\ written' = [written EXCEPT ![s] = @ \cup {loc[s].output_file}]
    /\ loc' = [loc EXCEPT ![s].out = loc[s].audio]
    /\ pc' = [pc EXCEPT ![s] = "remove"]
    /\ UNCHANGED <<req, idx, failedAt, results, ui, tempMp3, mixVars>>

\* create_audio, line 71.
RemoveTemp(s) ==
    /\ pc[s] = "remove"
    /\ calls' = [calls EXCEPT ![s] = Append(@, Call(s, "remove", "temp.mp3"))]
    /\ IF tempMp3.kind = "absent"
       THEN RaiseIn(s, loc[s], "FileNotFoundError") /\ UNCHANGED tempMp3
       ELSE /\ tempMp3' = Absent
            /\ pc' = [pc EXCEPT ![s] = "return"]
            /\ UNCHANGED <<idx, failedAt, loc>>
    /\ UNCHANGED <<req, results, ui, tmpdir, written, mixVars>>

\* create_audio, line 73, and batch_process, lines 78-81.
Return(s) ==
    /\ pc[s] = "return"
    /\ IF req[s].button = "process"
       THEN /\ results' = [results EXCEPT ![s] =
                             DictPut(@, CurStory(s).title, loc[s].output_file)]
            /\ IF idx[s] < Len(Stories(s))
               THEN /\ idx' = [idx EXCEPT ![s] = @ + 1]
                    /\ pc' = [pc EXCEPT ![s] = "stamp"]
               ELSE /\ pc' = [pc EXCEPT ![s] = "show"]
                    /\ UNCHANGED idx
       ELSE /\ pc' = [pc EXCEPT ![s] = "show"]
            /\ UNCHANGED <<results, idx>>
    /\ UNCHANGED <<req, failedAt, loc, ui, calls, tmpdir, tempMp3, written,
                   mixVars>>

\* main, lines 160-167 and 200-210, and the end of the with block.
Show(s) ==
    /\ pc[s] = "show"
    /\ ui' = [ui EXCEPT ![s] =
                IF req[s].button = "process"
                THEN @ \cup {Shown("success", "")}
                       \cup {Shown("audio", k) : k \in Keys(results[s])}
                ELSE @ \cup {Shown("audio", req[s].title)}]
    /\ tmpdir' = [tmpdir EXCEPT ![s] = NoDir]
    /\ pc' = [pc EXCEPT ![s] = "done"]
    /\ UNCHANGED <<req, idx, failedAt, loc, results, calls, tempMp3, written,
                   mixVars>>

NextFull ==
    \/ Next
    \/ \E s \in Sessions :
        \/ SpeedAdjust(s)
        \/ Mix(s)
        \/ Export(s)
        \/ RemoveTemp(s)
        \/ Return(s)
        \/ Show(s)

\* The whole program.  enhance_audio raises on every buffer, so the actions
\* NextFull adds to Next are never enabled and SpecFull has the behaviours
\* of Spec.
SpecFull == Init /\ [][NextFull]_vars

----------------------------------------------------------------------------
(* add_background_music on its own: every voice and music duration.        *)

Durations == 0 .. MaxDur

MixInputs ==
    [kind : {"call"},
     voice : {Seg("a", d) : d \in Durations},
     music : {Seg("music", m) : m \in Durations},
     volume : {DefaultMusicVolume, 0}]

InitMix ==
    /\ AppInit
    /\ mixArgs \in MixInputs
    /\ mixRet = NoCall

\* add_background_music(voice, music_path, volume), lines 40-49.
ApplyMix ==
    /\ mixRet = NoCall
    /\ mixRet' = add_background_music(mixArgs.voice, mixArgs.music, mixArgs.volume)
    /\ UNCHANGED <<mixArgs, appVars>>

NextMix == ApplyMix

SpecMix == InitMix /\ [][NextMix]_vars

----------------------------------------------------------------------------
(* The claims.                                                             *)

Ended(s) == pc[s] = "done"

\* C1: for every voice duration D and music duration M, add_background_music
\* returns a mixed buffer whose duration is exactly D.
MixedDurationIsVoiceDuration ==
    mixRet # NoCall =>
        /\ mixRet.kind = "seg"
        /\ SegLen(mixRet) = SegLen(mixArgs.voice)

\* The texts a request hands to the system.
GivenTexts(s) ==
    IF req[s].button = "generate" THEN {req[s].text}
    ELSE {Stories(s)[i].val : i \in 1 .. Len(Stories(s))}

\* C2: an empty text is never handed to the synthesis service, and a request
\* that gave one ends with a warning shown; in the single-story form and for
\* each story of a batch.
EmptyTextWarnedNotSynthesized ==
    \A s \in Sessions :
        /\ \A i \in 1 .. Len(calls[s]) :
              calls[s][i].fn = "gTTS" => calls[s][i].arg # ""
        /\ (Ended(s) /\ "" \in GivenTexts(s)) => Shown("warning", "") \in ui[s]

MixingRequest(s) ==
    /\ Ended(s)
    /\ req[s].button = "generate"
    /\ req[s].bg
    /\ Called(s, "enhance_audio")

\* C4: two requests that differ in the volume slider alone both call the
\* mixer with the default volume and produce the same output audio.
SliderHasNoInfluence ==
    \A s, t \in Sessions :
        (/\ s # t
         /\ MixingRequest(s) /\ MixingRequest(t)
         /\ req[s].volume # req[t].volume
         /\ [req[s] EXCEPT !.volume = 0] = [req[t] EXCEPT !.volume = 0]
         /\ loc[s].decoded = loc[t].decoded) =>
            /\ \E i \in 1 .. Len(calls[s]) :
                  calls[s][i] = Call(s, "add_background_music", "default")
            /\ \E i \in 1 .. Len(calls[t]) :
                  calls[t][i] = Call(t, "add_background_music", "default")
            /\ loc[s].out # NoAudio
            /\ loc[s].out = loc[t].out

\* C5: in a batch the stories are processed one after another, the first
\* story that raises ends the batch (no later story reaches the synthesis
\* service), the request ends with the error shown, and neither the success
\* message nor a player is shown unless every story succeeded.
BatchAbortsOnFirstError ==
    \A s \in Sessions :
        req[s].button = "process" =>
            /\ \A i, j \in 1 .. Len(calls[s]) :
                  i < j => calls[s][i].story <= calls[s][j].story
            /\ failedAt[s] # 0 =>
                  \A i \in 1 .. Len(calls[s]) : calls[s][i].story <= failedAt[s]
            /\ (Ended(s) /\ failedAt[s] # 0) =>
                  /\ Shown("error", "") \in ui[s]
                  /\ \A m \in ui[s] : m.kind \notin {"success", "audio"}
            /\ (\E m \in ui[s] : m.kind \in {"success", "audio"}) =>
                  /\ failedAt[s] = 0
                  /\ Keys(results[s]) = Keys(Stories(s))

\* A batch of two stories has ended with the error of its first story shown
\* and its second story never synthesized.
BatchAbortedWitness ==
    \E s \in Sessions :
        /\ Ended(s)
        /\ req[s].button = "process"
        /\ Len(Stories(s)) = 2
        /\ failedAt[s] = 1
        /\ Called(s, "gTTS")
        /\ Shown("error", "") \in ui[s]

\* C7: a single-story request that ended with an exception leaves no file it
\* wrote: no output file, no background copy, no raw voice file.
FailedSingleLeavesNoFile ==
    \A s \in Sessions :
        (Ended(s) /\ req[s].button = "generate" /\ loc[s].exc # "") =>
            /\ Shown("error", "") \in ui[s]
            /\ \A p \in written[s] : ~Exists(p)

\* A create_audio call that is over and whose voice buffer reached
\* enhance_audio.
PastEnhance(s) ==
    /\ pc[s] \in {"unwind", "except", "done"}
    /\ Called(s, "enhance_audio")

\* C8: create_audio applies the time-scaling transform exactly when speed is
\* not 1.0, and with speed 1.0 the buffer given to export is the enhanced
\* buffer.
SpeedOneIsNoOp ==
    \A s \in Sessions :
        PastEnhance(s) =>
            /\ Called(s, "speedup") <=> req[s].speed # 10
            /\ req[s].speed = 10 /\ ~(req[s].button = "generate" /\ req[s].bg)
                  => loc[s].out = enhance_audio(loc[s].decoded)

\* C9: enhance_audio returns a buffer of the duration of its input.
EnhanceKeepsDuration ==
    \A s \in Sessions :
        (Called(s, "enhance_audio") /\ pc[s] # "enhance") =>
            /\ loc[s].exc = ""
            /\ loc[s].audio.kind = "seg"
            /\ SegLen(loc[s].audio) = SegLen(loc[s].decoded)

\* C10: a create_audio call decodes the raw file it wrote itself, from its
\* own text: temp.mp3 is never read by a call other than its last writer.
DecodesOwnRawFile ==
    \A s \in Sessions :
        Called(s, "from_mp3") =>
            /\ loc[s].readFrom = s
            /\ loc[s].exc \notin {"FileNotFoundError", "CouldntDecodeError"}
            /\ loc[s].decoded # NoAudio => loc[s].decoded.text = CurStory(s).text

====
